---- MODULE Spec2Model ----
(***************************************************************************)
(* A model of openforcefield/utils/utils.py: the numpy array codec         *)
(* (serialize_numpy / deserialize_numpy), the scoped working-directory     *)
(* change (temporary_cd), the scoped temporary directory                   *)
(* (temporary_directory), the packaged-data lookup (get_data_filename),    *)
(* docstring inheritance (inherit_docstrings) and subclass enumeration     *)
(* (all_subclasses).  The utilities share no state, so each has its own    *)
(* specification over its own variables; the others' variables stay idle.  *)
(***************************************************************************)
EXTENDS Integers, Sequences, FiniteSets, TLC

VARIABLES
    native,     \* codec: byte order of the platform ("little" or "big")
    arr,        \* codec: the array handed to serialize_numpy
    ser,        \* codec: what serialize_numpy returned
    des,        \* codec: the call of deserialize_numpy and what it returned
    cwd,        \* temporary_cd: the process working directory
    scopes,     \* temporary_cd: the open scopes, innermost last
    cdEvent,    \* temporary_cd: the last thing a scope did (history)
    tcwd,       \* temporary_cd, two threads: the process working directory
    torig,      \* two threads: the working directory before either scope (history)
    tpath,      \* two threads: the dir_path each thread's scope is given
    tpc,        \* two threads: where each thread is in its scope
    tprev,      \* two threads: each generator's local prev_dir
    ttarget,    \* two threads: the absolute path each thread computed
    hist,       \* two threads: the steps taken so far, in order (history)
    tfs,        \* temporary_directory: the paths that exist
    tscopes,    \* temporary_directory: the open scopes, innermost last
    tmpEvent,   \* temporary_directory: the last thing that happened (history)
    dfs,        \* get_data_filename: the paths that exist
    dres,       \* get_data_filename: the last call and its outcome
    hier,       \* inherit_docstrings: which class hierarchy is loaded
    defined,    \* inherit_docstrings: the <<class, name>> attributes defined in class bodies
    docs,       \* inherit_docstrings: the __doc__ of each defined attribute ("" for none)
    icall,      \* inherit_docstrings: the last call and its outcome
    bases,      \* all_subclasses: the direct base classes of each class
    scall       \* all_subclasses: the last call and its outcome

codecVars == <<native, arr, ser, des>>
cdVars == <<cwd, scopes, cdEvent>>
thVars == <<tcwd, torig, tpath, tpc, tprev, ttarget, hist>>
tmpVars == <<tfs, tscopes, tmpEvent>>
dataVars == <<dfs, dres>>
docVars == <<hier, defined, docs, icall>>
subVars == <<bases, scall>>
vars == <<codecVars, cdVars, thVars, tmpVars, dataVars, docVars, subVars>>

notCodec == <<cdVars, thVars, tmpVars, dataVars, docVars, subVars>>
notCd == <<codecVars, thVars, tmpVars, dataVars, docVars, subVars>>
notTh == <<codecVars, cdVars, tmpVars, dataVars, docVars, subVars>>
notTmp == <<codecVars, cdVars, thVars, dataVars, docVars, subVars>>
notData == <<codecVars, cdVars, thVars, tmpVars, docVars, subVars>>
notDoc == <<codecVars, cdVars, thVars, tmpVars, dataVars, subVars>>
notSub == <<codecVars, cdVars, thVars, tmpVars, dataVars, docVars>>

(***************************************************************************)
(* Bounds of the model.                                                    *)
(***************************************************************************)
MaxRank == 2
MaxDim == 2
MaxSize == 4
MaxDepth == 2
MaxBodySteps == 1
MaxTmpDepth == 2
MaxClasses == 4

(***************************************************************************)
(* Generic helpers.                                                        *)
(***************************************************************************)
Reverse(s) == [i \in 1..Len(s) |-> s[Len(s) + 1 - i]]

RECURSIVE Prod(_)
Prod(s) == IF s = <<>> THEN 1 ELSE Head(s) * Prod(Tail(s))

RECURSIVE Flatten(_)
Flatten(ss) == IF ss = <<>> THEN <<>> ELSE Head(ss) \o Flatten(Tail(ss))

RECURSIVE SumSeq(_)
SumSeq(s) == IF s = <<>> THEN 0 ELSE Head(s) + SumSeq(Tail(s))

(***************************************************************************)
(* numpy arrays.  An array is its shape, its dtype (itemsize and byte      *)
(* order), the order its elements are laid out in memory ("C" row-major or *)
(* "F" column-major) and its memory: one byte string per element, in       *)
(* memory order, each as stored.  The value of an element is its bit       *)
(* pattern, written most significant byte first.                           *)
(***************************************************************************)
ByteOrders == {"little", "big"}

\* IEEE-754 bit patterns, most significant byte first: 1.0, 2.0, 3.0
Values8 == { <<63, 240, 0, 0, 0, 0, 0, 0>>,
             <<64, 0, 0, 0, 0, 0, 0, 0>>,
             <<64, 8, 0, 0, 0, 0, 0, 0>> }
\* the same numbers as 4-byte floats
Values4 == { <<63, 128, 0, 0>>, <<64, 0, 0, 0>>, <<64, 64, 0, 0>> }

Values(itemsize) == IF itemsize = 8 THEN Values8 ELSE Values4

\* the bytes of value v as a dtype of byte order bo stores them
Encode(v, bo) == IF bo = "big" THEN v ELSE Reverse(v)
\* the value that stored bytes b carry under a dtype of byte order bo
Decode(b, bo) == IF bo = "big" THEN b ELSE Reverse(b)

Shapes == { s \in UNION { [1..r -> 0..MaxDim] : r \in 0..MaxRank } : Prod(s) <= MaxSize }

Size(a) == Prod(a.shape)

\* the multi-index (0-based) of the k-th element (0-based) in row-major order
UnravelC(k, shape) ==
    [i \in 1..Len(shape) |->
        (k \div Prod(SubSeq(shape, i + 1, Len(shape)))) % shape[i]]

\* position in memory (0-based) of multi-index idx under either layout
RavelC(idx, shape) ==
    SumSeq([i \in 1..Len(shape) |-> idx[i] * Prod(SubSeq(shape, i + 1, Len(shape)))])
RavelF(idx, shape) ==
    SumSeq([i \in 1..Len(shape) |-> idx[i] * Prod(SubSeq(shape, 1, i - 1))])

MemIndex(a, idx) ==
    1 + (IF a.order = "C" THEN RavelC(idx, a.shape) ELSE RavelF(idx, a.shape))

\* the stored bytes of the k-th element (1-based) in row-major order
StoredAt(a, k) == a.data[MemIndex(a, UnravelC(k - 1, a.shape))]

\* the value of the k-th element (1-based) in row-major order
ValueAt(a, k) == Decode(StoredAt(a, k), a.byteorder)

EmptyArray == [shape |-> <<0>>, itemsize |-> 8, byteorder |-> "big",
               order |-> "C", data |-> <<>>]

\* ndarray.newbyteorder(new_order): a view of the same memory whose dtype has
\* the given byte order; no byte is moved
ArrayNewByteOrder(a, bo) == [a EXCEPT !.byteorder = bo]

\* ndarray.tobytes(): the elements' stored bytes, in row-major order
ToBytes(a) == Flatten([k \in 1..Size(a) |-> StoredAt(a, k)])

\* numpy.dtype('float'): 8 bytes, platform byte order
DtypeFloat(nat) == [itemsize |-> 8, byteorder |-> nat]

\* dtype.newbyteorder(new_order): returns a new dtype, the receiver is unchanged
DtypeNewByteOrder(dt, bo) == [dt EXCEPT !.byteorder = bo]

\* numpy.frombuffer(buffer, dtype): a 1-d array over the buffer, or ValueError
\* when the buffer is not a whole number of elements
FromBuffer(bytes, dt) ==
    IF Len(bytes) % dt.itemsize # 0
    THEN [status |-> "ValueError", array |-> EmptyArray]
    ELSE [status |-> "ok",
          array |-> [shape |-> <<Len(bytes) \div dt.itemsize>>,
                     itemsize |-> dt.itemsize,
                     byteorder |-> dt.byteorder,
                     order |-> "C",
                     data |-> [k \in 1..(Len(bytes) \div dt.itemsize) |->
                                 SubSeq(bytes, (k - 1) * dt.itemsize + 1,
                                        k * dt.itemsize)]]]

\* a reshape that cuts the elements that do not fit instead of failing
ReshapeTruncating(a, shape) ==
    IF Prod(shape) > Size(a)
    THEN [status |-> "ValueError", array |-> EmptyArray]
    ELSE [status |-> "ok",
          array |-> [a EXCEPT !.shape = shape, !.data = SubSeq(a.data, 1, Prod(shape))]]

\* ndarray.reshape(shape) of a contiguous 1-d array: the same elements under
\* the new shape, or ValueError when the sizes differ
Reshape(a, shape) ==
    IF Prod(shape) # Size(a)
    THEN [status |-> "ValueError", array |-> EmptyArray]
    ELSE [status |-> "ok", array |-> [a EXCEPT !.shape = shape]]

(***************************************************************************)
(* serialize_numpy and deserialize_numpy.                                  *)
(***************************************************************************)
\* a serializer that reports the flattened shape
serialize_numpy_flat_shape(np_array) ==
    [serialized |-> ToBytes(ArrayNewByteOrder(np_array, "big")),
     shape |-> <<Size(np_array)>>]

serialize_numpy(np_array) ==
    LET bigendian_array == ArrayNewByteOrder(np_array, "big")
    IN  [serialized |-> ToBytes(bigendian_array), shape |-> np_array.shape]

deserialize_numpy(serialized_np, shape, nat) ==
    LET dt == DtypeFloat(nat)
        discarded == DtypeNewByteOrder(dt, "big")  \* result not assigned
        flat == FromBuffer(serialized_np, dt)
    IN  IF flat.status # "ok" THEN flat ELSE Reshape(flat.array, shape)

Arrays(bo, w) ==
    UNION { { [shape |-> s, itemsize |-> w, byteorder |-> bo, order |-> o, data |-> d] :
                d \in [1..Prod(s) -> { Encode(v, bo) : v \in Values(w) }],
                o \in {"C", "F"} } : s \in Shapes }

CodecInit ==
    /\ native \in ByteOrders
    /\ \E bo \in ByteOrders, w \in {4, 8} : arr \in Arrays(bo, w)
    /\ ser = [done |-> FALSE, serialized |-> <<>>, shape |-> <<>>]
    /\ des = [status |-> "none", shape |-> <<>>, array |-> EmptyArray]

Serialize ==
    /\ ~ser.done
    /\ ser' = [done |-> TRUE,
               serialized |-> serialize_numpy(arr).serialized,
               shape |-> serialize_numpy(arr).shape]
    /\ UNCHANGED <<native, arr, des>>
    /\ UNCHANGED notCodec

Deserialize(shape) ==
    /\ ser.done
    /\ des.status = "none"
    /\ des' = [status |-> deserialize_numpy(ser.serialized, shape, native).status,
               shape |-> shape,
               array |-> deserialize_numpy(ser.serialized, shape, native).array]
    /\ UNCHANGED <<native, arr, ser>>
    /\ UNCHANGED notCodec

CodecNext ==
    \/ Serialize
    \/ \E shape \in Shapes : Deserialize(shape)

CodecIdle ==
    /\ native = "little"
    /\ arr = EmptyArray
    /\ ser = [done |-> FALSE, serialized |-> <<>>, shape |-> <<>>]
    /\ des = [status |-> "none", shape |-> <<>>, array |-> EmptyArray]

(***************************************************************************)
(* The filesystem of temporary_cd: a fixed tree of directories.  A         *)
(* directory is the sequence of names leading to it from the root; a path  *)
(* given by a caller is absolute or relative and may hold "." and "..".    *)
(***************************************************************************)
Dirs == { <<>>, <<"a">>, <<"a", "b">>, <<"c">> }

PathNames == {"a", "b", "c", ".", ".."}

DirPaths ==
    { [abs |-> ab, parts |-> ps] :
        ab \in BOOLEAN, ps \in UNION { [1..n -> PathNames] : n \in 0..2 } }

\* os.path.join(cwd, path)
PathJoin(dir, path) == IF path.abs THEN path.parts ELSE dir \o path.parts

\* os.path.normpath of an absolute path: "." dropped, ".." takes back one
\* name (none at the root), by the text of the path alone
RECURSIVE NormParts(_, _)
NormParts(parts, acc) ==
    IF parts = <<>> THEN acc
    ELSE IF Head(parts) = "." THEN NormParts(Tail(parts), acc)
    ELSE IF Head(parts) = ".."
         THEN NormParts(Tail(parts),
                        IF acc = <<>> THEN <<>> ELSE SubSeq(acc, 1, Len(acc) - 1))
    ELSE NormParts(Tail(parts), Append(acc, Head(parts)))

NormPath(parts) == NormParts(parts, <<>>)

\* os.path.abspath(path), with the working directory it reads
AbsPath(dir, path) == NormPath(PathJoin(dir, path))

\* what the operating system resolves a path to, name by name from the
\* working directory or the root: every directory on the way must exist
RECURSIVE Walk(_, _)
Walk(at, parts) ==
    IF ~at.ok \/ parts = <<>> THEN at
    ELSE IF Head(parts) = "." THEN Walk(at, Tail(parts))
    ELSE IF Head(parts) = ".."
         THEN Walk([ok |-> TRUE,
                    path |-> IF at.path = <<>> THEN <<>>
                             ELSE SubSeq(at.path, 1, Len(at.path) - 1)],
                   Tail(parts))
    ELSE IF Append(at.path, Head(parts)) \in Dirs
         THEN Walk([ok |-> TRUE, path |-> Append(at.path, Head(parts))], Tail(parts))
    ELSE [ok |-> FALSE, path |-> <<>>]

Resolve(dir, path) ==
    Walk([ok |-> TRUE, path |-> IF path.abs THEN <<>> ELSE dir], path.parts)

NoCdEvent == [kind |-> "none", left |-> <<>>, entry_cwd |-> <<>>]

CdInit ==
    /\ cwd \in Dirs
    /\ scopes = <<>>
    /\ cdEvent = NoCdEvent

CdIdle ==
    /\ cwd = <<>>
    /\ scopes = <<>>
    /\ cdEvent = NoCdEvent

(***************************************************************************)
(* temporary_cd, run by one thread: scopes open and close innermost first. *)
(* prev_dir is the generator's local; entry_cwd and resolved are history:  *)
(* the working directory just before the scope was entered and what the    *)
(* operating system resolves dir_path to at that moment.                   *)
(***************************************************************************)
\* entry with a dir_path whose absolute form is an existing directory
TemporaryCdEnter(dir_path) ==
    /\ Len(scopes) < MaxDepth
    /\ AbsPath(cwd, dir_path) \in Dirs
    /\ cwd' = AbsPath(cwd, dir_path)
    /\ scopes' = Append(scopes, [prev_dir |-> cwd,
                                 entry_cwd |-> cwd,
                                 resolved |-> Resolve(cwd, dir_path)])
    /\ cdEvent' = [kind |-> "entered", left |-> cwd, entry_cwd |-> cwd]
    /\ UNCHANGED notCd

\* entry with a dir_path that is no directory: os.chdir raises before the
\* try block, the scope is never entered
TemporaryCdEnterMissing(dir_path) ==
    /\ Len(scopes) < MaxDepth
    /\ AbsPath(cwd, dir_path) \notin Dirs
    /\ cdEvent' = [kind |-> "FileNotFoundError", left |-> cwd, entry_cwd |-> cwd]
    /\ UNCHANGED <<cwd, scopes>>
    /\ UNCHANGED notCd

\* an exit that restores the directory only when the body returned
TemporaryCdExitNoFinally(raised) ==
    /\ scopes # <<>>
    /\ cwd' = IF raised THEN cwd ELSE scopes[Len(scopes)].prev_dir
    /\ scopes' = SubSeq(scopes, 1, Len(scopes) - 1)
    /\ cdEvent' = [kind |-> IF raised THEN "exit_raise" ELSE "exit_return",
                   left |-> cwd,
                   entry_cwd |-> scopes[Len(scopes)].entry_cwd]
    /\ UNCHANGED notCd

\* the body of the innermost scope returns or raises: the finally clause
\* runs os.chdir(prev_dir)
TemporaryCdExit(raised) ==
    /\ scopes # <<>>
    /\ cwd' = scopes[Len(scopes)].prev_dir
    /\ scopes' = SubSeq(scopes, 1, Len(scopes) - 1)
    /\ cdEvent' = [kind |-> IF raised THEN "exit_raise" ELSE "exit_return",
                   left |-> cwd,
                   entry_cwd |-> scopes[Len(scopes)].entry_cwd]
    /\ UNCHANGED notCd

CdNext ==
    \/ \E dir_path \in DirPaths : TemporaryCdEnter(dir_path)
    \/ \E dir_path \in DirPaths : TemporaryCdEnterMissing(dir_path)
    \/ \E raised \in BOOLEAN : TemporaryCdExit(raised)

(***************************************************************************)
(* temporary_cd run by two threads of one process.  Each thread runs one   *)
(* scope; the interpreter may switch threads between any two calls, so     *)
(* os.getcwd(), os.path.abspath(dir_path), os.chdir(...), each step of the *)
(* body and the finally clause are separate steps.                         *)
(***************************************************************************)
Threads == {1, 2}

ThreadDirPaths ==
    { [abs |-> TRUE, parts |-> <<"a">>], [abs |-> TRUE, parts |-> <<"c">>],
      [abs |-> FALSE, parts |-> <<"b">>], [abs |-> FALSE, parts |-> <<"..">>] }

ThInit ==
    /\ tcwd \in Dirs
    /\ torig = tcwd
    /\ tpath \in [Threads -> ThreadDirPaths]
    /\ tpc = [t \in Threads |-> "start"]
    /\ tprev = [t \in Threads |-> <<>>]
    /\ ttarget = [t \in Threads |-> <<>>]
    /\ hist = <<>>

ThIdle ==
    /\ tcwd = <<>>
    /\ torig = <<>>
    /\ tpath = [t \in Threads |-> [abs |-> TRUE, parts |-> <<>>]]
    /\ tpc = [t \in Threads |-> "idle"]
    /\ tprev = [t \in Threads |-> <<>>]
    /\ ttarget = [t \in Threads |-> <<>>]
    /\ hist = <<>>

BodySteps(t) == Cardinality({ n \in 1..Len(hist) : hist[n].t = t /\ hist[n].op = "body" })

\* prev_dir = os.getcwd()
ThreadGetCwd(t) ==
    /\ tpc[t] = "start"
    /\ tprev' = [tprev EXCEPT ![t] = tcwd]
    /\ tpc' = [tpc EXCEPT ![t] = "got_cwd"]
    /\ hist' = Append(hist, [t |-> t, op |-> "getcwd", cwd |-> tcwd])
    /\ UNCHANGED <<tcwd, torig, tpath, ttarget>>
    /\ UNCHANGED notTh

\* os.path.abspath(dir_path)
ThreadAbsPath(t) ==
    /\ tpc[t] = "got_cwd"
    /\ ttarget' = [ttarget EXCEPT ![t] = AbsPath(tcwd, tpath[t])]
    /\ tpc' = [tpc EXCEPT ![t] = "got_abspath"]
    /\ hist' = Append(hist, [t |-> t, op |-> "abspath", cwd |-> tcwd])
    /\ UNCHANGED <<tcwd, torig, tpath, tprev>>
    /\ UNCHANGED notTh

\* os.chdir(...) of an existing directory
ThreadChdir(t) ==
    /\ tpc[t] = "got_abspath"
    /\ ttarget[t] \in Dirs
    /\ tcwd' = ttarget[t]
    /\ tpc' = [tpc EXCEPT ![t] = "body"]
    /\ hist' = Append(hist, [t |-> t, op |-> "chdir", cwd |-> ttarget[t]])
    /\ UNCHANGED <<torig, tpath, tprev, ttarget>>
    /\ UNCHANGED notTh

\* os.chdir(...) of a path that is no directory: raises, the scope is not entered
ThreadChdirMissing(t) ==
    /\ tpc[t] = "got_abspath"
    /\ ttarget[t] \notin Dirs
    /\ tpc' = [tpc EXCEPT ![t] = "failed"]
    /\ hist' = Append(hist, [t |-> t, op |-> "FileNotFoundError", cwd |-> tcwd])
    /\ UNCHANGED <<tcwd, torig, tpath, tprev, ttarget>>
    /\ UNCHANGED notTh

\* one operation of the body, done in whatever the working directory is
ThreadBody(t) ==
    /\ tpc[t] = "body"
    /\ BodySteps(t) < MaxBodySteps
    /\ hist' = Append(hist, [t |-> t, op |-> "body", cwd |-> tcwd])
    /\ UNCHANGED <<tcwd, torig, tpath, tpc, tprev, ttarget>>
    /\ UNCHANGED notTh

\* an exit that goes back to the directory the process started in
ThreadExitToOrigin(t) ==
    /\ tpc[t] = "body"
    /\ tcwd' = torig
    /\ tpc' = [tpc EXCEPT ![t] = "done"]
    /\ hist' = Append(hist, [t |-> t, op |-> "exit", cwd |-> torig])
    /\ UNCHANGED <<torig, tpath, tprev, ttarget>>
    /\ UNCHANGED notTh

\* the finally clause: os.chdir(prev_dir)
ThreadExit(t) ==
    /\ tpc[t] = "body"
    /\ tcwd' = tprev[t]
    /\ tpc' = [tpc EXCEPT ![t] = "done"]
    /\ hist' = Append(hist, [t |-> t, op |-> "exit", cwd |-> tprev[t]])
    /\ UNCHANGED <<torig, tpath, tprev, ttarget>>
    /\ UNCHANGED notTh

ThNext ==
    \/ \E t \in Threads : ThreadGetCwd(t)
    \/ \E t \in Threads : ThreadAbsPath(t)
    \/ \E t \in Threads : ThreadChdir(t)
    \/ \E t \in Threads : ThreadChdirMissing(t)
    \/ \E t \in Threads : ThreadBody(t)
    \/ \E t \in Threads : ThreadExit(t)

(***************************************************************************)
(* temporary_directory.  The filesystem is the set of paths that exist; a  *)
(* path whose last name is "f" is a file, any other a directory.           *)
(***************************************************************************)
TmpRoot == <<"tmp">>

\* the names tempfile.mkdtemp draws from
TmpNames == {"tmpa", "tmpb", "tmpc", "tmpd"}

\* what a body may create beneath a directory
Contents == { <<"f">>, <<"d">>, <<"d", "f">> }

IsPrefix(p, q) == Len(p) <= Len(q) /\ SubSeq(q, 1, Len(p)) = p
Parent(p) == SubSeq(p, 1, Len(p) - 1)
IsFileName(p) == p # <<>> /\ p[Len(p)] = "f"

\* the paths of fs strictly beneath p
Beneath(fs, p) == { q \in fs : IsPrefix(p, q) /\ q # p }

\* tempfile.mkdtemp(): creates a directory under a name not in use and
\* returns its path; which name is not determined
mkdtemp(fs) ==
    { [tmp_dir |-> TmpRoot \o <<n>>, fs |-> fs \cup {TmpRoot \o <<n>>}] :
        n \in { m \in TmpNames : TmpRoot \o <<m>> \notin fs } }

\* a removal of the directory entry alone
rmtree_top_only(fs, path) ==
    IF path \notin fs
    THEN [status |-> "FileNotFoundError", fs |-> fs]
    ELSE [status |-> "ok", fs |-> fs \ {path}]

\* shutil.rmtree(path): removes path and everything beneath it; raises when
\* path does not exist
rmtree(fs, path) ==
    IF path \notin fs
    THEN [status |-> "FileNotFoundError", fs |-> fs]
    ELSE [status |-> "ok", fs |-> { q \in fs : ~IsPrefix(path, q) }]

NoTmpEvent == [kind |-> "none", path |-> <<>>, existed_before |-> FALSE,
               had_contents |-> FALSE, rmtree |-> "none"]

TmpInit ==
    /\ tfs \in { {TmpRoot},
                 {TmpRoot, TmpRoot \o <<"tmpa">>},
                 {TmpRoot, TmpRoot \o <<"tmpa">>, TmpRoot \o <<"tmpa", "f">>} }
    /\ tscopes = <<>>
    /\ tmpEvent = NoTmpEvent

TmpIdle ==
    /\ tfs = {}
    /\ tscopes = <<>>
    /\ tmpEvent = NoTmpEvent

OpenDirs == { tscopes[n].tmp_dir : n \in 1..Len(tscopes) }

\* tmp_dir = tempfile.mkdtemp(); yield tmp_dir
TemporaryDirectoryEnter ==
    /\ Len(tscopes) < MaxTmpDepth
    /\ \E made \in mkdtemp(tfs) :
          /\ tfs' = made.fs
          /\ tscopes' = Append(tscopes, [tmp_dir |-> made.tmp_dir])
          /\ tmpEvent' = [kind |-> "yield", path |-> made.tmp_dir,
                          existed_before |-> made.tmp_dir \in tfs,
                          had_contents |-> FALSE, rmtree |-> "none"]
    /\ UNCHANGED notTmp

\* the body creates a file or a directory beneath an open scope's directory
BodyCreate(path) ==
    /\ tscopes # <<>>
    /\ path \notin tfs
    /\ Parent(path) \in tfs
    /\ ~IsFileName(Parent(path))
    /\ tfs' = tfs \cup {path}
    /\ tmpEvent' = [NoTmpEvent EXCEPT !.kind = "body", !.path = path]
    /\ UNCHANGED tscopes
    /\ UNCHANGED notTmp

\* the body (or anyone else) removes an open scope's directory or something beneath it
BodyRemove(path) ==
    /\ tscopes # <<>>
    /\ path \in tfs
    /\ tfs' = { q \in tfs : ~IsPrefix(path, q) }
    /\ tmpEvent' = [NoTmpEvent EXCEPT !.kind = "body", !.path = path]
    /\ UNCHANGED tscopes
    /\ UNCHANGED notTmp

\* the body returns or raises: the finally clause runs shutil.rmtree(tmp_dir)
TemporaryDirectoryExit(raised) ==
    /\ tscopes # <<>>
    /\ LET tmp_dir == tscopes[Len(tscopes)].tmp_dir
       IN  /\ tfs' = rmtree(tfs, tmp_dir).fs
           /\ tmpEvent' = [kind |-> IF raised THEN "exit_raise" ELSE "exit_return",
                           path |-> tmp_dir,
                           existed_before |-> FALSE,
                           had_contents |-> Beneath(tfs, tmp_dir) # {},
                           rmtree |-> rmtree(tfs, tmp_dir).status]
    /\ tscopes' = SubSeq(tscopes, 1, Len(tscopes) - 1)
    /\ UNCHANGED notTmp

TmpNext ==
    \/ TemporaryDirectoryEnter
    \/ \E d \in OpenDirs, c \in Contents : BodyCreate(d \o c)
    \/ \E d \in OpenDirs, c \in Contents \cup {<<>>} : BodyRemove(d \o c)
    \/ \E raised \in BOOLEAN : TemporaryDirectoryExit(raised)

(***************************************************************************)
(* get_data_filename.  pkg_resources.resource_filename joins the name to   *)
(* the directory the package is installed in.                              *)
(***************************************************************************)
PackageRoot == <<"site-packages", "openforcefield">>

DataFiles ==
    { <<"data">>, <<"data", "a.xml">>, <<"data", "c.xml">>, <<"data", "sub">>,
      <<"data", "sub", "b.xml">>, <<"data", "sub", "d.xml">> }

RelativePaths ==
    { <<>>, <<"a.xml">>, <<"c.xml">>, <<"sub">>, <<"sub", "b.xml">>, <<"sub", "d.xml">>,
      <<"e.xml">>, <<"sub", "e.xml">> }

\* os.path.join('data', relative_path)
DataJoin(relative_path) == <<"data">> \o relative_path

\* resource_filename('openforcefield', name)
resource_filename(name) == PackageRoot \o name

\* os.path.exists(fn)
PathExists(fs, fn) == fn \in fs

\* a lookup whose error names the path as it was asked for
get_data_filename_relative_message(fs, relative_path) ==
    LET fn == resource_filename(DataJoin(relative_path))
    IN  IF ~PathExists(fs, fn)
        THEN [status |-> "ValueError", value |-> <<>>,
              message |-> [head |-> "Sorry! ", path |-> relative_path,
                           tail |-> " does not exist. If you just added it, you'll have to re-install"]]
        ELSE [status |-> "ok", value |-> fn,
              message |-> [head |-> "", path |-> <<>>, tail |-> ""]]

get_data_filename(fs, relative_path) ==
    LET fn == resource_filename(DataJoin(relative_path))
    IN  IF ~PathExists(fs, fn)
        THEN [status |-> "ValueError", value |-> <<>>,
              message |-> [head |-> "Sorry! ", path |-> fn,
                           tail |-> " does not exist. If you just added it, you'll have to re-install"]]
        ELSE [status |-> "ok", value |-> fn,
              message |-> [head |-> "", path |-> <<>>, tail |-> ""]]

NoDataResult ==
    [called |-> FALSE, relative_path |-> <<>>, fs_before |-> {},
     result |-> [status |-> "none", value |-> <<>>,
                 message |-> [head |-> "", path |-> <<>>, tail |-> ""]]]

DataInit ==
    /\ \E installed \in SUBSET DataFiles :
          /\ \A q \in installed : Len(q) > 1 => Parent(q) \in installed
          /\ dfs = {PackageRoot} \cup { PackageRoot \o q : q \in installed }
    /\ dres = NoDataResult

DataIdle ==
    /\ dfs = {}
    /\ dres = NoDataResult

GetDataFilename(relative_path) ==
    /\ dres' = [called |-> TRUE, relative_path |-> relative_path, fs_before |-> dfs,
                result |-> get_data_filename(dfs, relative_path)]
    /\ UNCHANGED dfs
    /\ UNCHANGED notData

DataNext == \E relative_path \in RelativePaths : GetDataFilename(relative_path)

(***************************************************************************)
(* inherit_docstrings.  A function object is named by the class whose body *)
(* defines it and its name; an attribute a class does not define is looked *)
(* up along the class's method-resolution order.  Every order ends with    *)
(* object, whose __init__ carries a docstring and is no Python function.   *)
(***************************************************************************)
Classes == {"A", "B", "C", "D"}

\* attribute names, in the order inspect.getmembers lists them (sorted)
MemberNames == <<"__init__", "f">>

Hierarchies == {"chain", "diamond"}

\* cls.__mro__: chain is D(C), C(B), B(A); diamond is D(B, C), B(A), C(A)
Mro(h, cls) ==
    IF cls = "A" THEN <<"A", "object">>
    ELSE IF cls = "B" THEN <<"B", "A", "object">>
    ELSE IF cls = "C"
         THEN (IF h = "chain" THEN <<"C", "B", "A", "object">> ELSE <<"C", "A", "object">>)
    ELSE IF cls = "D"
         THEN (IF h = "chain" THEN <<"D", "C", "B", "A", "object">>
               ELSE <<"D", "B", "C", "A", "object">>)
    ELSE <<"object">>

ObjectInit == <<"object", "__init__">>
ObjectInitDoc == "Initialize self.  See help(type(self)) for accurate signature."

UserAttrs == { <<c, MemberNames[n]>> : c \in Classes, n \in 1..Len(MemberNames) }

DocOf(key) == "doc of " \o key[1] \o "." \o key[2]

\* the classes of cls's order that define name, in order
Definers(h, cls, name, defd) ==
    SelectSeq(Mro(h, cls), LAMBDA k : <<k, name>> \in defd)

\* hasattr(cls, name)
HasAttr(h, cls, name, defd) == Definers(h, cls, name, defd) # <<>>

\* getattr(cls, name), as the key of the object found
GetAttr(h, cls, name, defd) == <<Head(Definers(h, cls, name, defd)), name>>

\* inspect.isfunction
IsFunction(key) == key[1] # "object"

\* for parent in cls.__mro__[1:]: if hasattr(parent, name):
\*     func.__doc__ = getattr(parent, name).__doc__
RECURSIVE ParentLoop(_, _, _, _, _, _)
ParentLoop(d, func, name, parents, h, defd) ==
    IF parents = <<>> THEN d
    ELSE IF HasAttr(h, Head(parents), name, defd)
         THEN ParentLoop([d EXCEPT ![func] = d[GetAttr(h, Head(parents), name, defd)]],
                         func, name, Tail(parents), h, defd)
         ELSE ParentLoop(d, func, name, Tail(parents), h, defd)

\* for name, func in getmembers(cls, isfunction): if func.__doc__: continue ...
RECURSIVE MemberLoop(_, _, _, _, _)
MemberLoop(d, names, cls, h, defd) ==
    IF names = <<>> THEN d
    ELSE LET name == Head(names)
         IN  IF ~HasAttr(h, cls, name, defd) \/ ~IsFunction(GetAttr(h, cls, name, defd))
             THEN MemberLoop(d, Tail(names), cls, h, defd)
             ELSE IF d[GetAttr(h, cls, name, defd)] # ""
             THEN MemberLoop(d, Tail(names), cls, h, defd)
             ELSE MemberLoop(ParentLoop(d, GetAttr(h, cls, name, defd), name,
                                        Tail(Mro(h, cls)), h, defd),
                             Tail(names), cls, h, defd)

inherit_docstrings(cls, h, defd, d) ==
    [returned |-> cls, docs |-> MemberLoop(d, MemberNames, cls, h, defd)]

NoDocs == [k \in UserAttrs \cup {ObjectInit} |-> ""]

NoInheritCall == [called |-> FALSE, cls |-> "object", returned |-> "object",
                  docs_before |-> NoDocs]

DocInit ==
    /\ hier \in Hierarchies
    /\ \E user \in SUBSET UserAttrs, documented \in SUBSET UserAttrs :
          /\ documented \subseteq user
          /\ defined = user \cup {ObjectInit}
          /\ docs = [k \in UserAttrs \cup {ObjectInit} |->
                       IF k = ObjectInit THEN ObjectInitDoc
                       ELSE IF k \in documented THEN DocOf(k) ELSE ""]
    /\ icall = NoInheritCall

DocIdle ==
    /\ hier = "chain"
    /\ defined = {}
    /\ docs = NoDocs
    /\ icall = NoInheritCall

InheritDocstrings(cls) ==
    /\ ~icall.called
    /\ docs' = inherit_docstrings(cls, hier, defined, docs).docs
    /\ icall' = [called |-> TRUE, cls |-> cls,
                 returned |-> inherit_docstrings(cls, hier, defined, docs).returned,
                 docs_before |-> docs]
    /\ UNCHANGED <<hier, defined>>
    /\ UNCHANGED notDoc

DocNext == \E cls \in Classes : InheritDocstrings(cls)

(***************************************************************************)
(* all_subclasses.  Classes are numbered in the order they were created;   *)
(* a class's bases were created before it.                                 *)
(***************************************************************************)
SubClassIds == 1..MaxClasses

\* cls.__subclasses__(): the direct subclasses, in the order they were created
RECURSIVE SubclassesFrom(_, _)
SubclassesFrom(cls, k) ==
    IF k > MaxClasses THEN <<>>
    ELSE (IF cls \in bases[k] THEN <<k>> ELSE <<>>) \o SubclassesFrom(cls, k + 1)

Subclasses(cls) == SubclassesFrom(cls, cls + 1)

\* cls.__subclasses__() + [g for s in cls.__subclasses__() for g in all_subclasses(s)]
RECURSIVE all_subclasses(_)
all_subclasses(cls) ==
    Subclasses(cls) \o
    Flatten([n \in 1..Len(Subclasses(cls)) |-> all_subclasses(Subclasses(cls)[n])])

NoSubCall == [called |-> FALSE, cls |-> 1, result |-> <<>>]

SubInit ==
    /\ bases \in [SubClassIds -> SUBSET SubClassIds]
    /\ \A k \in SubClassIds : \A b \in bases[k] : b < k
    /\ scall = NoSubCall

SubIdle ==
    /\ bases = [k \in SubClassIds |-> {}]
    /\ scall = NoSubCall

AllSubclasses(cls) ==
    /\ scall' = [called |-> TRUE, cls |-> cls, result |-> all_subclasses(cls)]
    /\ UNCHANGED bases
    /\ UNCHANGED notSub

SubNext == \E cls \in SubClassIds : AllSubclasses(cls)

OthersIdle(own) ==
    /\ IF own = "codec" THEN TRUE ELSE CodecIdle
    /\ IF own = "cd" THEN TRUE ELSE CdIdle
    /\ IF own = "threads" THEN TRUE ELSE ThIdle
    /\ IF own = "tmp" THEN TRUE ELSE TmpIdle
    /\ IF own = "data" THEN TRUE ELSE DataIdle
    /\ IF own = "doc" THEN TRUE ELSE DocIdle
    /\ IF own = "sub" THEN TRUE ELSE SubIdle

InitCodec == CodecInit /\ OthersIdle("codec")
SpecCodec == InitCodec /\ [][CodecNext]_vars

InitCd == CdInit /\ OthersIdle("cd")
SpecCd == InitCd /\ [][CdNext]_vars

InitCdThreads == ThInit /\ OthersIdle("threads")
SpecCdThreads == InitCdThreads /\ [][ThNext]_vars

InitTmp == TmpInit /\ OthersIdle("tmp")
SpecTmp == InitTmp /\ [][TmpNext]_vars

InitData == DataInit /\ OthersIdle("data")
SpecData == InitData /\ [][DataNext]_vars

InitDoc == DocInit /\ OthersIdle("doc")
SpecDoc == InitDoc /\ [][DocNext]_vars

InitSub == SubInit /\ OthersIdle("sub")
SpecSub == InitSub /\ [][SubNext]_vars

(***************************************************************************)
(* Claims about the codec, checked under SpecCodec.                        *)
(***************************************************************************)
RoundTripCall == des.status # "none" /\ des.shape = ser.shape

\* C1: for every array with 8-byte elements, deserialize_numpy applied to what
\* serialize_numpy returned succeeds, has the array's shape and carries at
\* every index the value the array has there.
C1_RoundTrip ==
    (RoundTripCall /\ arr.itemsize = 8) =>
        /\ des.status = "ok"
        /\ des.array.shape = arr.shape
        /\ \A k \in 1..Size(arr) : ValueAt(des.array, k) = ValueAt(arr, k)

\* C4: serialize_numpy emits the elements in row-major order, each value
\* most significant byte first, whatever byte order the input is stored in;
\* deserialize_numpy reads each 8 bytes most significant byte first.
C4_BigEndianFormat ==
    /\ (ser.done /\ arr.itemsize = 8) =>
          ser.serialized = Flatten([k \in 1..Size(arr) |-> Encode(ValueAt(arr, k), "big")])
    /\ des.status = "ok" =>
          \A k \in 1..Size(des.array) :
              ValueAt(des.array, k) = Decode(SubSeq(ser.serialized, 8 * (k - 1) + 1, 8 * k), "big")

\* C5 as stated: for every array, the returned shape is the array's shape
\* and the byte sequence is 8 * product(shape) long.
C5_ByteLengthAnyArray ==
    ser.done =>
        /\ ser.shape = arr.shape
        /\ Len(ser.serialized) = 8 * Prod(arr.shape)

\* C5 amended: for every array with 8-byte elements (any rank, zero
\* dimensions included), the returned shape is the array's shape and the
\* byte sequence is 8 * product(shape) long.
C5_ByteLength ==
    (ser.done /\ arr.itemsize = 8) =>
        /\ ser.shape = arr.shape
        /\ Len(ser.serialized) = 8 * Prod(arr.shape)

C5_Witness ==
    /\ ser.done
    /\ arr.itemsize = 8
    /\ arr.shape = <<2, 2>>
    /\ ser.shape = <<2, 2>>
    /\ Len(ser.serialized) = 32

\* C6: deserialize_numpy fails with a ValueError and returns no array
\* whenever the number of bytes is not 8 * product(shape).
C6_MismatchFails ==
    (des.status # "none" /\ Len(ser.serialized) # 8 * Prod(des.shape)) =>
        /\ des.status = "ValueError"
        /\ des.array = EmptyArray

C6_Witness ==
    /\ des.status = "ValueError"
    /\ Len(ser.serialized) = 16
    /\ des.shape = <<1>>

(***************************************************************************)
(* Claims about temporary_cd in one thread, checked under SpecCd.          *)
(***************************************************************************)
\* C2: while the body of a scope entered with an existing directory runs,
\* the working directory is that directory; and right after a scope has
\* exited, by return or by raise, the working directory is the one in effect
\* just before that scope was entered.
C2_ScopedCd ==
    /\ (scopes # <<>> /\ scopes[Len(scopes)].resolved.ok) =>
          cwd = scopes[Len(scopes)].resolved.path
    /\ cdEvent.kind \in {"exit_return", "exit_raise"} => cwd = cdEvent.entry_cwd

C2_Witness ==
    /\ cdEvent.kind = "exit_raise"
    /\ Len(scopes) = 1
    /\ cdEvent.left # cdEvent.entry_cwd
    /\ cwd = cdEvent.entry_cwd
    /\ cwd # scopes[1].entry_cwd

(***************************************************************************)
(* Claims about temporary_cd in two threads, checked under SpecCdThreads.  *)
(***************************************************************************)
\* the steps of thread t with operation op, as positions in hist
Steps(t, op) == { n \in 1..Len(hist) : hist[n].t = t /\ hist[n].op = op }

\* scope j is entered after scope i has entered and before scope i exits,
\* and scope i exits before scope j
Overlapped(i, j) ==
    /\ tpc[i] = "done" /\ tpc[j] = "done"
    /\ \A ci \in Steps(i, "chdir"), gj \in Steps(j, "getcwd") : ci < gj
    /\ \A cj \in Steps(j, "chdir"), ei \in Steps(i, "exit") : cj < ei
    /\ \A ei \in Steps(i, "exit"), ej \in Steps(j, "exit") : ei < ej

\* C8: in every run where the two scopes overlap this way, whatever scope
\* i's body does after scope j entered is done in scope j's directory,
\* whatever scope j's body does after scope i exited is done in the original
\* directory, and after both exits the working directory is the one scope i
\* entered, not the original one.
C8_ThreadsUnsafe ==
    \A i \in Threads, j \in Threads :
        (i # j /\ Overlapped(i, j)) =>
            /\ tcwd = ttarget[i]
            /\ \A b \in Steps(i, "body"), cj \in Steps(j, "chdir") :
                   cj < b => hist[b].cwd = ttarget[j]
            /\ \A b \in Steps(j, "body"), ei \in Steps(i, "exit") :
                   ei < b => hist[b].cwd = torig

C8_Witness ==
    /\ Overlapped(1, 2)
    /\ tcwd # torig
    /\ \E b \in Steps(1, "body") : hist[b].cwd # ttarget[1]
    /\ \E b \in Steps(2, "body") : hist[b].cwd # ttarget[2]

(***************************************************************************)
(* Claims about temporary_directory, checked under SpecTmp.                *)
(***************************************************************************)
\* C3: the path a scope yields is a directory created by the entry (it did
\* not exist just before) and is empty; right after the scope has exited,
\* by return or by raise, neither the path nor anything beneath it exists.
C3_ScopedTmpDir ==
    /\ tmpEvent.kind = "yield" =>
          /\ ~tmpEvent.existed_before
          /\ tmpEvent.path \in tfs
          /\ ~IsFileName(tmpEvent.path)
          /\ Beneath(tfs, tmpEvent.path) = {}
    /\ tmpEvent.kind \in {"exit_return", "exit_raise"} =>
          \A q \in tfs : ~IsPrefix(tmpEvent.path, q)

C3_Witness ==
    /\ tmpEvent.kind = "exit_raise"
    /\ tmpEvent.had_contents
    /\ tmpEvent.rmtree = "ok"
    /\ Len(tscopes) = 1
    /\ \A q \in tfs : ~IsPrefix(tmpEvent.path, q)

(***************************************************************************)
(* Claims about get_data_filename, checked under SpecData.                 *)
(***************************************************************************)
\* C7: when data/<relative_path> inside the installed package does not
\* exist the call raises ValueError with the resolved path in its message;
\* when it exists the call returns the resolved path; the filesystem is the
\* same after the call as before.
C7_DataLookup ==
    dres.called =>
        LET resolved == PackageRoot \o <<"data">> \o dres.relative_path
        IN  /\ resolved \notin dres.fs_before =>
                  /\ dres.result.status = "ValueError"
                  /\ dres.result.message.path = resolved
            /\ resolved \in dres.fs_before =>
                  /\ dres.result.status = "ok"
                  /\ dres.result.value = resolved
            /\ dfs = dres.fs_before

C7_Witness ==
    /\ dres.called
    /\ dres.relative_path = <<"sub", "b.xml">>
    /\ PackageRoot \o <<"data", "sub">> \in dfs
    /\ PackageRoot \o <<"data", "sub", "b.xml">> \notin dfs
    /\ dres.result.status = "ValueError"
    /\ dres.result.message.path = PackageRoot \o <<"data", "sub", "b.xml">>

(***************************************************************************)
(* Claims about inherit_docstrings, checked under SpecDoc.                 *)
(***************************************************************************)
\* the function attributes of the class the call was given
CalledMembers ==
    { MemberNames[n] : n \in { m \in 1..Len(MemberNames) :
        /\ HasAttr(hier, icall.cls, MemberNames[m], defined)
        /\ IsFunction(GetAttr(hier, icall.cls, MemberNames[m], defined)) } }

\* the ancestors of the called class that have attribute name, nearest first
AncestorsWith(name) ==
    SelectSeq(Tail(Mro(hier, icall.cls)), LAMBDA k : HasAttr(hier, k, name, defined))

\* C9: after inherit_docstrings(cls), every function attribute of cls that
\* had no docstring carries the docstring of the nearest ancestor in the
\* method-resolution order that has an attribute of that name; function
\* attributes that had a docstring keep it; cls is returned.
C9_NearestAncestorDoc ==
    icall.called =>
        /\ icall.returned = icall.cls
        /\ \A name \in CalledMembers :
              LET func == GetAttr(hier, icall.cls, name, defined)
                  nearest == GetAttr(hier, Head(AncestorsWith(name)), name, defined)
              IN  /\ icall.docs_before[func] # "" => docs[func] = icall.docs_before[func]
                  /\ (icall.docs_before[func] = "" /\ AncestorsWith(name) # <<>>) =>
                        \/ docs[func] = icall.docs_before[nearest]
                        \/ docs[func] = docs[nearest]

(***************************************************************************)
(* Claims about all_subclasses, checked under SpecSub.                     *)
(***************************************************************************)
\* k is reachable from cls through one or more direct-subclass links
RECURSIVE IsDescendant(_, _)
IsDescendant(k, cls) == \E b \in bases[k] : b = cls \/ IsDescendant(b, cls)

Occurrences(seq, x) == Cardinality({ n \in 1..Len(seq) : seq[n] = x })

\* C10: the result of all_subclasses(cls) holds every class reachable from
\* cls through direct-subclass links, nothing else, and each exactly once.
C10_EachSubclassOnce ==
    scall.called =>
        \A k \in SubClassIds :
            Occurrences(scall.result, k) = (IF IsDescendant(k, scall.cls) THEN 1 ELSE 0)

====
